---- MODULE Spec2Model ----
(***************************************************************************)
(* CONUS-30m-LAI: per-pixel model of gee/lai_state_monthly_export.js and   *)
(* of getObsCount of gee/obs_count_analysis.js.                            *)
(*                                                                         *)
(* Every Earth Engine image operation of the script is pixel-wise, so the  *)
(* model follows ONE pixel through the script.  A pixel of a band is a     *)
(* record [m, v]: m is the mask (FALSE = no-data) and v the value; a       *)
(* masked pixel carries v = 0 so that equal pixels are equal records.      *)
(* An image (at that pixel) is a function from band names to pixels.       *)
(*                                                                         *)
(* Units: reflectance after scaleLandsat is kept in thousandths of the     *)
(* script's unit (exact: DN * 275 - 2000000); the regression output and    *)
(* the floating LAI are kept in thousandths of an LAI unit (milli-LAI).    *)
(***************************************************************************)
EXTENDS Integers, Sequences, FiniteSets, TLC

VARIABLES NONVEG, REDUCER, year, month, pc, exportRegion, lstack, laiColl, out, obsCount,
          scene, image, stage

vars == <<NONVEG, REDUCER, year, month, pc, exportRegion, lstack, laiColl, out, obsCount,
          scene, image, stage>>

(***************************************************************************)
(* Pixels and masks                                                        *)
(***************************************************************************)
NoData == [m |-> FALSE, v |-> 0]

Px(x) == [m |-> TRUE, v |-> x]

\* ee.Image.updateMask(mask): the pixel survives where it is unmasked and the
\* mask image is unmasked and non-zero.
UpdateMask(p, mask) == IF p.m /\ mask.m /\ mask.v # 0 THEN p ELSE NoData

\* A unary / binary pixel-wise operation: the result is masked where an
\* operand is masked.
Lift1(p, r) == IF p.m THEN Px(r) ELSE NoData

Lift2(p, q, r) == IF p.m /\ q.m THEN Px(r) ELSE NoData

Bool(b) == IF b THEN 1 ELSE 0

\* bit k of a non-negative integer
Bit(x, k) == (x \div (2 ^ k)) % 2

\* the image with every band masked by the same mask pixel
UpdateMaskAll(bands, mask) == [b \in DOMAIN bands |-> UpdateMask(bands[b], mask)]

\* the bands of `extra` appended to `bands` (Image.addBands, no overwrite)
AddBands(bands, extra) ==
    [b \in (DOMAIN bands) \cup (DOMAIN extra) |->
        IF b \in DOMAIN bands THEN bands[b] ELSE extra[b]]

NoBands == [b \in {} |-> NoData]

(***************************************************************************)
(* Strings as sequences of characters: String.slice, Number.parse          *)
(***************************************************************************)
Min(a, b) == IF a < b THEN a ELSE b

Max(a, b) == IF a > b THEN a ELSE b

\* ee.String.slice(start, end): 0-based, end exclusive, clipped to the string
Slice(s, start, end) ==
    LET e == Min(end, Len(s))
    IN  IF start >= e THEN <<>> ELSE SubSeq(s, start + 1, e)

Digits == <<"0", "1", "2", "3", "4", "5", "6", "7", "8", "9">>

\* ee.Number.parse of a string: its value, or -1 when it is not a number
\* (the call then raises an error)
ParseNumber(s) ==
    IF Len(s) = 1 /\ \E d \in 1..10 : Digits[d] = s[1]
    THEN (CHOOSE d \in 1..10 : Digits[d] = s[1]) - 1
    ELSE -1

LANDSAT(n) == <<"L", "A", "N", "D", "S", "A", "T", "_", n>>

(***************************************************************************)
(* Scenes: what the archive holds at the pixel                             *)
(*                                                                         *)
(* A scene is a record                                                     *)
(*   SPACECRAFT_ID  the sensor identifier, a string                        *)
(*   CLOUD_COVER    scene cloud cover (%)                                   *)
(*   QA_PIXEL       the sensor QA bit field at the pixel                   *)
(*   dn             the raw surface reflectance DNs at the pixel           *)
(*   landcover      the NLCD class at the pixel (-1: outside the raster)   *)
(*   month, day     the acquisition date (system:time_start)               *)
(*   lon, lat       the pixel's coordinates                                *)
(*   rf             the regression output at the pixel, in milli-LAI       *)
(*   fetch          "ok", or "fail" when reading the scene's pixels fails  *)
(*   has, SUN_*     the solar metadata present on the scene                *)
(***************************************************************************)
\* Band layout of the Collection 2 Level 2 products the script reads:
\* OLI (Landsat 8, 9) has a coastal band first, TM/ETM+ (Landsat 4, 5, 7) not.
TMBands == {"SR_B1", "SR_B2", "SR_B3", "SR_B4", "SR_B5", "SR_B7",
            "ST_B6", "QA_PIXEL", "QA_RADSAT"}

OLIBands == {"SR_B1", "SR_B2", "SR_B3", "SR_B4", "SR_B5", "SR_B6", "SR_B7",
             "ST_B10", "QA_PIXEL", "QA_RADSAT"}

IsOLI(id) == id \in {LANDSAT("8"), LANDSAT("9")}

RawBand(s, b) ==
    IF b = "QA_PIXEL" THEN s.QA_PIXEL
    ELSE IF b \in {"QA_RADSAT", "ST_B6", "ST_B10"} THEN 0
    ELSE IF IsOLI(s.SPACECRAFT_ID)
         THEN CASE b = "SR_B1" -> s.dn.coastal
                [] b = "SR_B2" -> s.dn.blue
                [] b = "SR_B3" -> s.dn.green
                [] b = "SR_B4" -> s.dn.red
                [] b = "SR_B5" -> s.dn.nir
                [] b = "SR_B6" -> s.dn.swir1
                [] b = "SR_B7" -> s.dn.swir2
         ELSE CASE b = "SR_B1" -> s.dn.blue
                [] b = "SR_B2" -> s.dn.green
                [] b = "SR_B3" -> s.dn.red
                [] b = "SR_B4" -> s.dn.nir
                [] b = "SR_B5" -> s.dn.swir1
                [] b = "SR_B7" -> s.dn.swir2

\* The image as it is handed to the script (one element of a collection).
\* SPACECRAFT_NO and nlcd_year are the properties the script sets later.
RawImage(s) ==
    IF s.fetch # "ok" THEN [err |-> TRUE, bands |-> [b \in {} |-> [m |-> FALSE, v |-> 0]],
                            SPACECRAFT_NO |-> -1, nlcd_year |-> -1]
    ELSE
    [err |-> FALSE,
     bands |-> [b \in (IF IsOLI(s.SPACECRAFT_ID) THEN OLIBands ELSE TMBands)
                   |-> Px(RawBand(s, b))],
     SPACECRAFT_NO |-> -1,
     nlcd_year |-> -1]

\* A computation that raised an error: it has no value.
ErrImage == [err |-> TRUE, bands |-> NoBands, SPACECRAFT_NO |-> -1, nlcd_year |-> -1]

(***************************************************************************)
(* Reflectance Normalizer                                                  *)
(***************************************************************************)
L89From == <<"SR_B2", "SR_B3", "SR_B4", "SR_B5", "SR_B6", "SR_B7", "QA_PIXEL">>

L57From == <<"SR_B1", "SR_B2", "SR_B3", "SR_B4", "SR_B5", "SR_B7", "QA_PIXEL">>

CanonTo == <<"blue", "green", "red", "nir", "swir1", "swir2", "pixel_qa">>

Range(f) == {f[i] : i \in DOMAIN f}

\* ee.Image.select(from, to): an error when a band of `from` is missing
Select(bands, from, to) ==
    [b \in Range(to) |-> bands[from[CHOOSE i \in DOMAIN to : to[i] = b]]]

\* renameLandsat: spacecraft_no = Number.parse(SPACECRAFT_ID.slice(8,9));
\* from = If(spacecraft_no >= 8, L8/9 list, L5/7 list); select(from, to).
RenameLandsat(id, img) ==
    LET spacecraft_no == ParseNumber(Slice(id, 8, 9))
        isL8or9 == spacecraft_no >= 8
        from == IF isL8or9 THEN L89From ELSE L57From
    IN  IF img.err \/ spacecraft_no = -1 \/ ~(Range(from) \subseteq DOMAIN img.bands)
        THEN ErrImage
        ELSE [img EXCEPT !.bands = Select(img.bands, from, CanonTo),
                         !.SPACECRAFT_NO = spacecraft_no]

\* multiply(0.0000275).add(-0.2).divide(0.0001) = DN * 0.275 - 2000,
\* kept exactly in thousandths
ScaleDN(dn) == dn * 275 - 2000000

ScaledNames == {"green", "red", "nir", "swir1"}

\* ScaleLandsat rescaling every reflectance band it is given
ScaleLandsat_AllBands(img) ==
    IF img.err \/ ~("pixel_qa" \in DOMAIN img.bands) THEN ErrImage
    ELSE [img EXCEPT !.bands =
            [b \in DOMAIN img.bands |->
                IF b = "pixel_qa" THEN img.bands[b]
                ELSE Lift1(img.bands[b], ScaleDN(img.bands[b].v))]]

\* scaleLandsat: only green, red, nir, swir1 are selected and rescaled, the
\* unscaled pixel_qa band is appended.
ScaleLandsat(img) ==
    IF img.err \/ ~((ScaledNames \cup {"pixel_qa"}) \subseteq DOMAIN img.bands)
    THEN ErrImage
    ELSE [img EXCEPT !.bands =
            AddBands([b \in ScaledNames |-> Lift1(img.bands[b], ScaleDN(img.bands[b].v))],
                     [b \in {"pixel_qa"} |-> img.bands[b]])]

(***************************************************************************)
(* Validity Masker and Feature Deriver                                     *)
(***************************************************************************)
\* MaskLandsat testing bit 1 (dilated cloud) as well
MaskLandsat_DilatedCloud(img) ==
    IF img.err THEN ErrImage
    ELSE LET qa == img.bands["pixel_qa"]
             bad == Lift1(qa, Bool(Bit(qa.v, 1) # 0 \/ Bit(qa.v, 3) # 0
                                   \/ Bit(qa.v, 4) # 0 \/ Bit(qa.v, 7) # 0))
         IN  [img EXCEPT !.bands = UpdateMaskAll(img.bands, Lift1(bad, Bool(bad.v = 0)))]

\* maskLandsat: QA bits 3 (cloud), 4 (shadow), 7 (water) mask every band
MaskLandsat(img) ==
    IF img.err THEN ErrImage
    ELSE LET qa == img.bands["pixel_qa"]
             cloud  == Lift1(qa, Bool(Bit(qa.v, 3) # 0))
             shadow == Lift1(qa, Bool(Bit(qa.v, 4) # 0))
             water  == Lift1(qa, Bool(Bit(qa.v, 7) # 0))
             Not(p) == Lift1(p, Bool(p.v = 0))
         IN  [img EXCEPT !.bands =
                UpdateMaskAll(UpdateMaskAll(UpdateMaskAll(img.bands, Not(cloud)),
                                            Not(shadow)), Not(water))]

\* floor of a / b for b > 0
FloorDiv(a, b) == IF a >= 0 THEN a \div b ELSE -((-a + b - 1) \div b)

\* float(a - b) / (a + b) in thousandths; Earth Engine's division returns 0
\* for a zero divisor.  (Scaled values are multiples of 25 thousandths: the
\* common factor is taken out to stay within 32-bit integers.)
NormDiff(a, b) ==
    LET d == (a - b) \div 25
        t == (a + b) \div 25
    IN  IF t = 0 THEN 0
        ELSE IF t > 0 THEN FloorDiv(d * 1000, t)
        ELSE FloorDiv((-d) * 1000, -t)

\* getVIs: NDVI and NDWI are added as bands
GetVIs(img) ==
    IF img.err THEN ErrImage
    ELSE LET nir == img.bands["nir"]
             red == img.bands["red"]
             sw1 == img.bands["swir1"]
         IN  [img EXCEPT !.bands =
                AddBands(img.bands,
                   [b \in {"NDVI", "NDWI"} |->
                      IF b = "NDVI" THEN Lift2(nir, red, NormDiff(nir.v, red.v))
                      ELSE Lift2(nir, sw1, NormDiff(nir.v, sw1.v))])]

\* processLandsat: solar zenith and azimuth with their fallbacks
SolarZenith(s) ==
    IF "SUN_ELEVATION" \in s.has THEN 90 - s.SUN_ELEVATION
    ELSE IF "SOLAR_ZENITH_ANGLE" \in s.has THEN s.SOLAR_ZENITH_ANGLE
    ELSE 45

SolarAzimuth(s) ==
    IF "SUN_AZIMUTH" \in s.has THEN s.SUN_AZIMUTH
    ELSE IF "SOLAR_AZIMUTH_ANGLE" \in s.has THEN s.SOLAR_AZIMUTH_ANGLE
    ELSE 180

ProcessLandsat(s, img) ==
    GetVIs(MaskLandsat(ScaleLandsat(RenameLandsat(s.SPACECRAFT_ID, img))))

(***************************************************************************)
(* Biome Classifier                                                        *)
(***************************************************************************)
\* NlcdYear taking the latest epoch that is not after the year
NlcdYear_Previous(y) ==
    CASE y \in 1984..2003 -> 2001
      [] y \in 2004..2005 -> 2004
      [] y \in 2006..2007 -> 2006
      [] y \in 2008..2010 -> 2008
      [] y \in 2011..2012 -> 2011
      [] y \in 2013..2015 -> 2013
      [] y \in 2016..2018 -> 2016
      [] y \in 2019..2020 -> 2019
      [] y \in 2021..2024 -> 2021
      [] OTHER -> -1

\* nlcd_dict of getTrainImg: the epoch for a year, -1 when the year is no key
\* of the dictionary (Dictionary.get then raises an error)
NlcdYear(y) ==
    CASE y \in 1984..2002 -> 2001
      [] y \in 2003..2005 -> 2004
      [] y \in 2006..2007 -> 2006
      [] y \in 2008..2009 -> 2008
      [] y \in 2010..2012 -> 2011
      [] y \in 2013..2014 -> 2013
      [] y \in 2015..2017 -> 2016
      [] y \in 2018..2020 -> 2019
      [] y \in 2021..2024 -> 2021
      [] OTHER -> -1

fromList == <<11, 12, 21, 22, 23, 24, 31, 41, 42, 43, 51, 52, 71, 72, 73, 74, 81, 82, 90, 95>>

\* toList with pasture/hay (81) among the non-vegetated classes
toList_PastureNonVeg == <<0, 0, 0, 0, 0, 0, 0, 1, 2, 3, 0, 4, 5, 0, 0, 0, 0, 6, 7, 8>>

toList == <<0, 0, 0, 0, 0, 0, 0, 1, 2, 3, 0, 4, 5, 0, 0, 0, 5, 6, 7, 8>>

\* ee.Image.remap(from, to) without a default: a value that is not listed is
\* masked
Remap(p, from, to) ==
    IF p.m /\ \E i \in DOMAIN from : from[i] = p.v
    THEN Px(to[CHOOSE i \in DOMAIN from : from[i] = p.v])
    ELSE NoData

\* the NLCD land-cover class at the pixel (no-data outside the raster)
Landcover(s) == IF s.landcover = -1 THEN NoData ELSE Px(s.landcover)

\* the body of getTrainImg after processLandsat: biome2 from the NLCD epoch of the image's year, the processed
\* Landsat bands, lon/lat, solar angles and the 'mask' band (pixel_qa*0 + 1)
TrainBands(s, y, proc) ==
    LET nlcd_year == NlcdYear(y)
        biome == Remap(Landcover(s), fromList, toList)
    IN  IF nlcd_year = -1 \/ proc.err THEN ErrImage
        ELSE LET mask_img == Lift1(proc.bands["pixel_qa"], 0)
                 extra == [b \in {"biome2", "lon", "lat", "sun_zenith", "sun_azimuth", "mask"} |->
                            CASE b = "biome2" -> biome
                              [] b = "lon" -> Lift1(mask_img, s.lon)
                              [] b = "lat" -> Lift1(mask_img, s.lat)
                              [] b = "sun_zenith" -> Px(SolarZenith(s))
                              [] b = "sun_azimuth" -> Px(SolarAzimuth(s))
                              [] b = "mask" -> Lift1(mask_img, 1)]
             IN  [proc EXCEPT !.bands = AddBands(proc.bands, extra),
                              !.nlcd_year = nlcd_year]

GetTrainImg(s, y, img) == TrainBands(s, y, ProcessLandsat(s, img))

(***************************************************************************)
(* Stratified Regressor                                                    *)
(***************************************************************************)
\* A JavaScript value: a number, or an object (here a wrapped ee.Number)
JsNumber(n) == [type |-> "number", val |-> n]

EeNumber(n) == [type |-> "object", val |-> n]

\* JavaScript `x > 0`: an ee.Number object converts to NaN, and NaN > 0 is false
JsGreaterThanZero(x) == x.type = "number" /\ x.val > 0

\* getRFModel(sensor, biome): the training samples of the sensor, filtered to
\* one biome only `if (biome > 0)`; biome2 = -1 stands for "not filtered"
GetRFModel(sensor, biome) ==
    [sensor |-> sensor,
     biome2 |-> IF JsGreaterThanZero(biome) THEN biome.val ELSE -1]

Features == {"red", "green", "nir", "swir1", "lat", "lon", "NDVI", "NDWI",
             "sun_zenith", "sun_azimuth"}

\* Image.classify(rf_model, 'LAI'): the regression output where every input
\* feature is unmasked
Classify(s, bands, rf_model) ==
    IF \A f \in Features : bands[f].m THEN Px(s.rf) ELSE NoData

\* getLAIforBiome: the image masked to biome2 = biome, then classified
GetLAIforBiome(s, train_img, rf_model, biome) ==
    LET b2 == train_img.bands["biome2"]
    IN  Classify(s, UpdateMaskAll(train_img.bands, Lift1(b2, Bool(b2.v = biome))), rf_model)

\* ee.Image.where(test, value): the input's mask is kept; the value replaces
\* the input where test is unmasked and non-zero.  (A masked value under a
\* passing test does not occur here: the value is masked only where the test
\* or the input is.)
Where(input, test, value) ==
    IF ~input.m THEN NoData
    ELSE IF test.m /\ test.v # 0 /\ value.m THEN value
    ELSE input

\* the sensor group of getLAIImage: Dictionary.get raises an error ("") for a
\* digit that is no key
SensorOf(id) ==
    LET satDigit == Slice(id, 8, 9)
    IN  CASE satDigit = <<"5">> -> "LT05"
          [] satDigit = <<"7">> -> "LE07"
          [] satDigit = <<"8">> -> "LC08"
          [] satDigit = <<"9">> -> "LC08"
          [] OTHER -> ""

BiomeList(nonveg) ==
    IF nonveg THEN <<0, 1, 2, 3, 4, 5, 6, 7, 8>> ELSE <<1, 2, 3, 4, 5, 6, 7, 8>>

\* the sentinel 9999 of getLAIImage, in milli-LAI
Sentinel == 9999 * 1000

\* biomes.forEach(...): lai_img after the iterations i..Len(biomes)
RECURSIVE ForEachBiome(_, _, _, _, _, _)
ForEachBiome(s, train_img, sensor, biomes, i, lai_img) ==
    IF i > Len(biomes) THEN lai_img
    ELSE LET b2 == train_img.bands["biome2"]
             biome == EeNumber(biomes[i])
             next == Where(lai_img,
                           Lift1(b2, Bool(b2.v = biome.val)),
                           GetLAIforBiome(s, train_img, GetRFModel(sensor, biome), biome.val))
         IN  ForEachBiome(s, train_img, sensor, biomes, i + 1, next)

\* biomes.forEach(...): the iterations i..Len(biomes) whose where() replaced
\* the pixel, each with the biome of the iteration and the model it was
\* given, in the order of the iterations
RECURSIVE ForEachBiomeWrites(_, _, _, _, _)
ForEachBiomeWrites(s, train_img, sensor, biomes, i) ==
    IF i > Len(biomes) THEN <<>>
    ELSE LET b2 == train_img.bands["biome2"]
             biome == EeNumber(biomes[i])
             rf_model == GetRFModel(sensor, biome)
             test == Lift1(b2, Bool(b2.v = biome.val))
             value == GetLAIforBiome(s, train_img, rf_model, biome.val)
             fired == train_img.bands["mask"].m /\ test.m /\ test.v # 0 /\ value.m
         IN  (IF fired THEN <<[b |-> biomes[i], rf_model |-> rf_model]>> ELSE <<>>)
             \o ForEachBiomeWrites(s, train_img, sensor, biomes, i + 1)

\* getLAIImage up to the end of biomes.forEach: the train image with the
\* floating lai_img (sentinel 9999 where no biome matched) as band "lai_img"
OverlayLAI(s, train_img, nonveg) ==
    LET sensor == SensorOf(s.SPACECRAFT_ID)
    IN  IF sensor = "" \/ train_img.err THEN ErrImage
        ELSE LET start == Lift1(train_img.bands["mask"], Sentinel)
                 done == ForEachBiome(s, train_img, sensor, BiomeList(nonveg), 1, start)
             IN  [train_img EXCEPT !.bands =
                    AddBands(train_img.bands, [b \in {"lai_img"} |-> done])]

\* MaskSentinel with the updateMask left out
MaskSentinel_Off(lai) == lai

\* lai_img.updateMask(lai_img.neq(9999))
MaskSentinel(lai) == UpdateMask(lai, Lift1(lai, Bool(lai.v # Sentinel)))

(***************************************************************************)
(* QA Encoder                                                              *)
(***************************************************************************)
red_max == 5100

green_max == 5100

nir_max == 7100

swir1_max == 7100

lai_max == 8

\* value.divide(max).multiply(10).floor().toInt(), the value in thousandths
BinOf(x, max) == FloorDiv(x * 10, max * 1000)

InRange(x, max) == x >= 0 /\ x < max * 1000

\* The convex-hull asset is not part of the repository: this table stands
\* for its content, one 10x10x10x10 array of 0/1 per sensor.
HullTable(sensor, r, g, n, w) ==
    IF sensor = "LC08" THEN Bool(n >= r /\ w <= 8) ELSE Bool(n >= r)

\* PackQA with the bits evaluated in turn, stopping at the first one set
PackQA_ShortCircuit(in_mask, out_mask, biome_mask) ==
    IF in_mask # 0 THEN 1 ELSE IF out_mask # 0 THEN 2 ELSE 4 * biome_mask

\* in_mask.bitwiseOr(out_mask.leftShift(1)).bitwiseOr(biome_mask.leftShift(2))
PackQA(in_mask, out_mask, biome_mask) == in_mask + 2 * out_mask + 4 * biome_mask

\* InMask without unmask(0): a pixel that was not looked up stays masked
InMask_NoUnmask(looked) == Lift1(looked, Bool(looked.v = 0))

\* in_mask: hull_image.arrayGet(...).unmask(0).not().toByte()
InMask(looked) == Px(Bool((IF looked.m THEN looked.v ELSE 0) = 0))

\* OutMask computed from the LAI with its sentinel still in place
OutMask_OfSentinel(lai) ==
    Px(Bool(~((IF lai.m THEN lai.v ELSE Sentinel) >= 0
              /\ (IF lai.m THEN lai.v ELSE Sentinel) <= lai_max * 1000)))

\* OutMask over the open interval: 0 and lai_max are flagged too
OutMask_Open(lai) == Lift1(lai, Bool(~(lai.v > 0 /\ lai.v < lai_max * 1000)))

\* out_mask: lai.gte(0).and(lai.lte(lai_max)).not().int(), lai in milli-LAI
OutMask(lai) == Lift1(lai, Bool(~(lai.v >= 0 /\ lai.v <= lai_max * 1000)))

\* range_mask of getLAIQA: every reflectance within [0, max)
RangeMask(landsat) ==
    LET red == landsat["red"]
        green == landsat["green"]
        nir == landsat["nir"]
        swir1 == landsat["swir1"]
    IN  IF red.m /\ green.m /\ nir.m /\ swir1.m
        THEN Px(Bool(InRange(red.v, red_max) /\ InRange(green.v, green_max)
                     /\ InRange(nir.v, nir_max) /\ InRange(swir1.v, swir1_max)))
        ELSE NoData

\* hull_image.arrayGet(image_scaled.updateMask(range_mask)): the entry of
\* the sensor's table at the pixel's bins, looked up under range_mask only
LookedUp(landsat, sensor) ==
    LET range_mask == RangeMask(landsat)
    IN  IF range_mask.m /\ range_mask.v # 0
        THEN Px(HullTable(sensor, BinOf(landsat["red"].v, red_max),
                          BinOf(landsat["green"].v, green_max),
                          BinOf(landsat["nir"].v, nir_max),
                          BinOf(landsat["swir1"].v, swir1_max)))
        ELSE NoData

\* getLAIQA(landsat, sensor, lai)
GetLAIQA(landsat, sensor, lai) ==
    LET in_mask == InMask(LookedUp(landsat, sensor))
        out_mask == OutMask(lai)
        biome_mask == Lift1(landsat["biome2"], Bool(landsat["biome2"].v = 0))
    IN  IF in_mask.m /\ out_mask.m /\ biome_mask.m
        THEN Px(PackQA(in_mask.v, out_mask.v, biome_mask.v))
        ELSE NoData

(***************************************************************************)
(* getLAIImage                                                             *)
(***************************************************************************)
\* ee.Image.round of a / b (b > 0): the nearest integer, halves upwards
RoundDiv(a, b) == FloorDiv(2 * a + b, 2 * b)

Clamp(x, lo, hi) == Max(lo, Min(x, hi))

\* EncodeLAI without round(): the cast drops the fraction
EncodeLAI_Floor(lai) == Lift1(lai, Clamp(FloorDiv(lai.v, 10), 0, 65535))

\* lai_img.multiply(100).round().clamp(0, 65535).uint16(), lai in milli-LAI
EncodeLAI(lai) == Lift1(lai, Clamp(RoundDiv(lai.v, 10), 0, 65535))

\* the property LAI_scale_factor = 0.01 of the result, in milli-LAI per count
LAI_scale_factor == 10

\* DecodeLAI reading the stored count as a percentage of the unit
DecodeLAI_Percent(x) == x * 100

\* decoding a stored LAI count with the scale factor, in milli-LAI
DecodeLAI(x) == x * LAI_scale_factor

\* the end of getLAIImage: the sentinel is masked, the QA band derived and
\* the LAI encoded; the result has the bands LAI and QA
FinishLAI(s, overlaid) ==
    IF overlaid.err THEN ErrImage
    ELSE LET lai_img == MaskSentinel(overlaid.bands["lai_img"])
             qa == GetLAIQA(overlaid.bands, SensorOf(s.SPACECRAFT_ID), lai_img)
         IN  [overlaid EXCEPT !.bands =
                [b \in {"LAI", "QA"} |-> IF b = "LAI" THEN EncodeLAI(lai_img) ELSE qa]]

\* getLAIImage(image, nonveg) at the pixel
GetLAIImage(s, y, nonveg) ==
    FinishLAI(s, OverlayLAI(s, GetTrainImg(s, y, RawImage(s)), nonveg))

(***************************************************************************)
(* Monthly Compositor                                                      *)
(***************************************************************************)
CLOUD_LIMIT == 50

YEAR_TO_EXPORT == 2000

\* ValidMaskFromQA in which the non-vegetation bit invalidates too
ValidMaskFromQA_Bit2(qa) ==
    Lift1(qa, Bool(~(Bit(qa.v, 0) # 0 \/ Bit(qa.v, 1) # 0 \/ Bit(qa.v, 2) # 0)))

\* ValidMaskFromQA looking at bit 0 (bad_input) only
ValidMaskFromQA_InputOnly(qa) == Lift1(qa, Bool(~(Bit(qa.v, 0) # 0)))

\* validMaskFromQA(qa) = bad_input.or(bad_lai).not()
ValidMaskFromQA(qa) == Lift1(qa, Bool(~(Bit(qa.v, 0) # 0 \/ Bit(qa.v, 1) # 0)))

\* the function mapped over lstack: the LAI band masked by the validity mask
MaskedLAI(laiImg) ==
    IF laiImg.err THEN ErrImage
    ELSE [laiImg EXCEPT !.bands =
            [b \in {"LAI"} |-> UpdateMask(laiImg.bands["LAI"],
                                          ValidMaskFromQA(laiImg.bands["QA"]))]]

\* the unmasked values of a stack of LAI pixels, in stack order
RECURSIVE ValidValues(_)
ValidValues(coll) ==
    IF coll = <<>> THEN <<>>
    ELSE (IF Head(coll).bands["LAI"].m THEN <<Head(coll).bands["LAI"].v>> ELSE <<>>)
         \o ValidValues(Tail(coll))

RECURSIVE SumSeq(_)
SumSeq(q) == IF q = <<>> THEN 0 ELSE Head(q) + SumSeq(Tail(q))

\* the k-th smallest element of a sequence of numbers (k = 1 is the minimum)
KthSmallest(q, k) ==
    CHOOSE x \in Range(q) :
        /\ Cardinality({i \in DOMAIN q : q[i] < x}) < k
        /\ Cardinality({i \in DOMAIN q : q[i] <= x}) >= k

\* ImageCollection.mean() / .median() of the unmasked values, as the exact
\* fraction num / den (median: the middle value, or the mean of the two
\* middle values of an even number of inputs)
MeanOf(vals) == [num |-> SumSeq(vals), den |-> Len(vals)]

\* MedianOf taking the lower middle value of an even number of inputs
MedianOf_LowerMiddle(vals) ==
    [num |-> KthSmallest(vals, (Len(vals) + 1) \div 2), den |-> 1]

MedianOf(vals) ==
    LET n == Len(vals)
    IN  IF n % 2 = 1 THEN [num |-> KthSmallest(vals, (n + 1) \div 2), den |-> 1]
        ELSE [num |-> KthSmallest(vals, n \div 2) + KthSmallest(vals, n \div 2 + 1),
              den |-> 2]

\* toUint16() of a non-negative fraction: the fractional part is dropped
ToUint16(f) == Min(f.num \div f.den, 65535)

\* A reduction of an ImageCollection is no-data at a pixel where no image of
\* the collection is unmasked; this holds for count() as for mean() and
\* median() (a zero count needs an explicit unmask(0), which the script does
\* not apply).
ReduceLAI(vals, reducer) ==
    IF vals = <<>> THEN NoData
    ELSE Px(ToUint16(IF reducer = "mean" THEN MeanOf(vals) ELSE MedianOf(vals)))

ReduceCount(vals) == IF vals = <<>> THEN NoData ELSE Px(Min(Len(vals), 65535))

\* ee.Image(0).rename('LAI').updateMask(ee.Image(0))
EmptyImage ==
    [err |-> FALSE, bands |-> [b \in {"LAI"} |-> UpdateMask(Px(0), Px(0))],
     SPACECRAFT_NO |-> -1, nlcd_year |-> -1]

SafeColl(coll) == IF Len(coll) > 0 THEN coll ELSE <<EmptyImage>>

ErrOut == [err |-> TRUE, LAI |-> NoData, obs_count |-> NoData]

\* laiMonthly and count of buildMonthlyLAI.  An error raised while one
\* element of the mapped collection is computed is the error of every
\* reduction over the collection.
Composite(coll, reducer) ==
    IF \E i \in DOMAIN coll : coll[i].err THEN ErrOut
    ELSE LET vals == ValidValues(SafeColl(coll))
         IN  [err |-> FALSE,
              LAI |-> ReduceLAI(vals, reducer),
              obs_count |-> ReduceCount(vals)]

(***************************************************************************)
(* Data fetch: getLandsat                                                  *)
(***************************************************************************)
TimeOf(s) == s.month * 100 + s.day

\* a set of scenes as the sequence ordered by acquisition time
RECURSIVE ByTime(_)
ByTime(S) ==
    IF S = {} THEN <<>>
    ELSE LET first == CHOOSE x \in S : \A z \in S : TimeOf(x) <= TimeOf(z)
         IN  <<first>> \o ByTime(S \ {first})

\* one collection's filterDate(start, end).filterBounds(region)
\*   .filterMetadata('CLOUD_COVER', 'less_than', cloud_limit);
\* `region` is the set of scenes whose footprint meets the region
FilterCollection(archive, digit, mon, region, cloud_limit) ==
    {x \in archive : /\ x.SPACECRAFT_ID = LANDSAT(digit)
                     /\ x.month = mon
                     /\ x \in region
                     /\ x.CLOUD_COVER < cloud_limit}

\* stable insertion of x into a sequence sorted by time
RECURSIVE InsertByTime(_, _)
InsertByTime(q, x) ==
    IF q = <<>> THEN <<x>>
    ELSE IF TimeOf(x) < TimeOf(Head(q)) THEN <<x>> \o q
    ELSE <<Head(q)>> \o InsertByTime(Tail(q), x)

RECURSIVE SortByTime(_)
SortByTime(q) ==
    IF q = <<>> THEN <<>>
    ELSE InsertByTime(SortByTime(SubSeq(q, 1, Len(q) - 1)), q[Len(q)])

\* L5.merge(L7).merge(L8).merge(L9).sort('system:time_start')
GetLandsat(archive, mon, region, cloud_limit) ==
    LET L9 == ByTime(FilterCollection(archive, "9", mon, region, cloud_limit))
        L8 == ByTime(FilterCollection(archive, "8", mon, region, cloud_limit))
        L7 == ByTime(FilterCollection(archive, "7", mon, region, cloud_limit))
        L5 == ByTime(FilterCollection(archive, "5", mon, region, cloud_limit))
    IN  SortByTime(L5 \o L7 \o L8 \o L9)

(***************************************************************************)
(* obs_count_analysis.js: observation density without the LAI retrieval    *)
(***************************************************************************)
\* CLOUD_LIMIT of obs_count_analysis.js
ObsCLOUD_LIMIT == 50

\* MaskLandsatQA testing bit 1 (dilated cloud) as well
MaskLandsatQA_DilatedCloud(img) ==
    IF img.err THEN ErrImage
    ELSE LET qa == img.bands["QA_PIXEL"]
             bad == Lift1(qa, Bool(Bit(qa.v, 1) # 0 \/ Bit(qa.v, 3) # 0
                                   \/ Bit(qa.v, 4) # 0 \/ Bit(qa.v, 7) # 0))
         IN  [img EXCEPT !.bands = UpdateMaskAll(img.bands, Lift1(bad, Bool(bad.v = 0)))]

\* maskLandsatQA: QA_PIXEL bits 3, 4, 7 mask every band of the raw image
MaskLandsatQA(img) ==
    IF img.err THEN ErrImage
    ELSE LET qa == img.bands["QA_PIXEL"]
             cloud  == Lift1(qa, Bool(Bit(qa.v, 3) # 0))
             shadow == Lift1(qa, Bool(Bit(qa.v, 4) # 0))
             water  == Lift1(qa, Bool(Bit(qa.v, 7) # 0))
             keep == IF cloud.m /\ shadow.m /\ water.m
                     THEN Px(Bool(cloud.v = 0 /\ shadow.v = 0 /\ water.v = 0))
                     ELSE NoData
         IN  [img EXCEPT !.bands = UpdateMaskAll(img.bands, keep)]

\* the filters of makeValid: filterDate, filterBounds, CLOUD_COVER
FilterValid(archive, digit, mon, reg) ==
    ByTime(FilterCollection(archive, digit, mon, reg, ObsCLOUD_LIMIT))

\* the scenes of getLandsatValid, in the order of its merge
ScenesOfLandsatValid(archive, mon, reg) ==
    FilterValid(archive, "5", mon, reg) \o FilterValid(archive, "7", mon, reg)
        \o FilterValid(archive, "8", mon, reg) \o FilterValid(archive, "9", mon, reg)

\* makeValid of getLandsatValid, for one collection: the filters, then
\* .map(maskLandsatQA).select(['SR_B1'], ['valid'])
MakeValid(archive, digit, mon, reg) ==
    LET col == FilterValid(archive, digit, mon, reg)
    IN  [i \in DOMAIN col |->
            LET masked == MaskLandsatQA(RawImage(col[i]))
            IN  IF masked.err THEN ErrImage
                ELSE [masked EXCEPT !.bands = Select(masked.bands, <<"SR_B1">>, <<"valid">>)]]

\* getLandsatValid: L5.merge(L7).merge(L8).merge(L9), not sorted
GetLandsatValid(archive, mon, reg) ==
    MakeValid(archive, "5", mon, reg) \o MakeValid(archive, "7", mon, reg)
        \o MakeValid(archive, "8", mon, reg) \o MakeValid(archive, "9", mon, reg)

\* the unmasked values of the band 'valid' of a collection
RECURSIVE ValidPixels(_)
ValidPixels(coll) ==
    IF coll = <<>> THEN <<>>
    ELSE (IF Head(coll).bands["valid"].m THEN <<Head(coll).bands["valid"].v>> ELSE <<>>)
         \o ValidPixels(Tail(coll))

NoCount == [err |-> FALSE, obs_count |-> NoData]

\* getObsCount: coll.count().rename('obs_count').  The count of an empty
\* collection has no band, and renaming it is an error.
GetObsCount(archive, mon, reg) ==
    LET coll == GetLandsatValid(archive, mon, reg)
    IN  IF coll = <<>> \/ \E i \in DOMAIN coll : coll[i].err
        THEN [err |-> TRUE, obs_count |-> NoData]
        ELSE [err |-> FALSE, obs_count |-> ReduceCount(ValidPixels(coll))]

(***************************************************************************)
(* Inputs                                                                  *)
(***************************************************************************)
\* raw DNs: red 18182 is 3000.05 after scaling (bin 5), nir 25000 is 4875
\* (bin 6): in range and inside the hull table
DnOK == [coastal |-> 7500, blue |-> 8000, green |-> 9000, red |-> 18182,
         nir |-> 25000, swir1 |-> 15000, swir2 |-> 12000]

\* in range, but the nir bin (4) is below the red bin (5): outside the hull
DnOutHull == [DnOK EXCEPT !.nir = 20000]

\* red scales to 5100.225, just above its range
DnRedHigh == [DnOK EXCEPT !.red = 25819]

\* red scales to -0.2, just below its range
DnRedLow == [DnOK EXCEPT !.red = 7272]

Base ==
    [SPACECRAFT_ID |-> LANDSAT("8"), CLOUD_COVER |-> 10, QA_PIXEL |-> 21824,
     dn |-> DnOK, landcover |-> 41, rf |-> 2340, fetch |-> "ok",
     month |-> 1, day |-> 1, lon |-> -100, lat |-> 40,
     has |-> {"SUN_ELEVATION", "SUN_AZIMUTH"},
     SUN_ELEVATION |-> 60, SUN_AZIMUTH |-> 150,
     SOLAR_ZENITH_ANGLE |-> 30, SOLAR_AZIMUTH_ANGLE |-> 150]

\* sensor identifiers: the four generations the script reads, Landsat 4
\* (same product family, not read), and two identifiers of other missions
SpacecraftIds ==
    {LANDSAT("4"), LANDSAT("5"), LANDSAT("7"), LANDSAT("8"), LANDSAT("9"),
     <<"T", "e", "r", "r", "a">>,
     <<"S", "e", "n", "t", "i", "n", "e", "l", "-", "2", "A">>}

\* QA_PIXEL: clear (21824), cloud (bit 3), shadow (bit 4), water (bit 7),
\* dilated cloud (bit 1, which masks nothing)
QaPixels == {21824, 21824 + 8, 21824 + 16, 21824 + 128, 21824 + 2}

\* nir scales to 3834.125 (5.4 bins): its bin 5 equals the red bin
DnNirEdge == [DnOK EXCEPT !.nir = 21215]

\* swir1 scales to 6415 (bin 9): inside the hull of LT05 and LE07 only
DnSwirHigh == [DnOK EXCEPT !.swir1 = 30600]

Spectra == {DnOK, DnOutHull, DnRedHigh, DnRedLow, DnNirEdge, DnSwirHigh}

\* NLCD classes: water (biome 0), forest (1), grass (5), pasture (5),
\* wetland (8), an unlisted code, outside the raster
Landcovers == {11, 41, 71, 81, 95, 99, -1}

\* regression outputs in milli-LAI
RfOutputs == {-50, 0, 4, 5, 2340, 2345, 8000, 8004, 8005, 9100, 700000}

\* the scenes of the per-scene specification
SceneInputs ==
    {[Base EXCEPT !.SPACECRAFT_ID = id, !.QA_PIXEL = q, !.dn = d,
                  !.landcover = lc, !.rf = v] :
        id \in SpacecraftIds, q \in QaPixels, d \in Spectra,
        lc \in Landcovers, v \in {-50, 2340, 8005, 9100}}
    \cup {[Base EXCEPT !.SPACECRAFT_ID = id, !.landcover = lc, !.rf = v] :
            id \in {LANDSAT("5"), LANDSAT("8")}, lc \in {11, 41}, v \in RfOutputs}
    \cup {[Base EXCEPT !.landcover = lc] : lc \in Range(fromList)}
    \cup {[Base EXCEPT !.fetch = "fail"]}

\* acquisition years: inside and just outside the table of getTrainImg
Years == 1983..2025

\* the archive of the monthly specification: scenes of the four collections
Archive ==
    {[Base EXCEPT !.day = 1, !.rf = 2340],
     [Base EXCEPT !.day = 2, !.rf = 2000],
     [Base EXCEPT !.day = 3, !.rf = 4000, !.SPACECRAFT_ID = LANDSAT("9")],
     [Base EXCEPT !.day = 4, !.rf = 4010, !.SPACECRAFT_ID = LANDSAT("7")],
     [Base EXCEPT !.day = 5, !.rf = 9100],
     [Base EXCEPT !.day = 6, !.rf = 0, !.SPACECRAFT_ID = LANDSAT("5")],
     [Base EXCEPT !.day = 7, !.QA_PIXEL = 21824 + 8],
     [Base EXCEPT !.day = 8, !.landcover = 11, !.rf = 1000],
     [Base EXCEPT !.day = 9, !.landcover = 11, !.rf = 9100],
     [Base EXCEPT !.day = 10, !.dn = DnOutHull, !.rf = 3000],
     [Base EXCEPT !.day = 11, !.fetch = "fail"],
     [Base EXCEPT !.day = 12, !.CLOUD_COVER = 50],
     [Base EXCEPT !.day = 13, !.rf = 8000, !.SPACECRAFT_ID = LANDSAT("5")],
     [Base EXCEPT !.day = 14, !.rf = 2340, !.QA_PIXEL = 21824 + 2],
     [Base EXCEPT !.month = 2, !.day = 1, !.rf = 5000],
     [Base EXCEPT !.month = 2, !.day = 2, !.rf = 9100, !.SPACECRAFT_ID = LANDSAT("7")]}

Months == {1, 2}

\* the largest number of scenes whose footprint meets the region
MaxScenes == 3

RECURSIVE SubsetsUpTo(_, _)
SubsetsUpTo(S, k) ==
    IF k = 0 THEN {{}}
    ELSE LET P == SubsetsUpTo(S, k - 1) IN P \cup {q \cup {x} : q \in P, x \in S}

(***************************************************************************)
(* State machine of one buildMonthlyLAI(year, month, region) call          *)
(***************************************************************************)
NoOut == [err |-> FALSE, LAI |-> NoData, obs_count |-> NoData]

Init ==
    /\ NONVEG \in BOOLEAN
    /\ REDUCER \in {"median", "mean"}
    /\ year = YEAR_TO_EXPORT
    /\ month \in Months
    /\ pc = "start"
    /\ exportRegion = {}
    /\ lstack = <<>>
    /\ laiColl = <<>>
    /\ out = NoOut
    /\ obsCount = NoCount
    /\ scene = Base
    /\ image = ErrImage
    /\ stage = "idle"

\* lstack = getLandsat(start, end, region, CLOUD_LIMIT)
FetchStack ==
    /\ pc = "start"
    /\ \E r \in SubsetsUpTo(Archive, MaxScenes) :
          /\ exportRegion' = r
          /\ lstack' = GetLandsat(Archive, month, r, CLOUD_LIMIT)
    /\ pc' = "map"
    /\ UNCHANGED <<NONVEG, REDUCER, year, month, laiColl, out, obsCount, scene, image, stage>>

\* laiColl = lstack.map(function (img) {...})
MapStack ==
    /\ pc = "map"
    /\ laiColl' = [i \in DOMAIN lstack |->
                     MaskedLAI(GetLAIImage(lstack[i], year, NONVEG))]
    /\ pc' = "reduce"
    /\ UNCHANGED <<NONVEG, REDUCER, year, month, exportRegion, lstack, out, obsCount,
                   scene, image, stage>>

\* safeColl, laiMonthly, count, out
ReduceStack ==
    /\ pc = "reduce"
    /\ out' = Composite(laiColl, REDUCER)
    /\ pc' = "done"
    /\ UNCHANGED <<NONVEG, REDUCER, year, month, exportRegion, lstack, laiColl, obsCount,
                   scene, image, stage>>

\* obs_count_analysis.js: getObsCount(year, month, region) for the year,
\* month and region of the composite
CountObs ==
    /\ pc = "done"
    /\ obsCount' = GetObsCount(Archive, month, exportRegion)
    /\ pc' = "counted"
    /\ UNCHANGED <<NONVEG, REDUCER, year, month, exportRegion, lstack, laiColl, out,
                   scene, image, stage>>

Next == FetchStack \/ MapStack \/ ReduceStack \/ CountObs

Spec == Init /\ [][Next]_vars

(***************************************************************************)
(* State machine of one getLAIImage(image, nonveg) call, step by step      *)
(***************************************************************************)
InitScene ==
    /\ NONVEG \in BOOLEAN
    /\ REDUCER = "median"
    /\ \/ scene \in SceneInputs /\ year = YEAR_TO_EXPORT
       \/ scene = Base /\ year \in Years
    /\ month = scene.month
    /\ pc = "idle"
    /\ exportRegion = {}
    /\ lstack = <<>>
    /\ laiColl = <<>>
    /\ out = NoOut
    /\ obsCount = NoCount
    /\ image = RawImage(scene)
    /\ stage = "raw"

Step(from, to, img) ==
    /\ stage = from
    /\ stage' = to
    /\ image' = img
    /\ UNCHANGED <<NONVEG, REDUCER, year, month, pc, exportRegion, lstack, laiColl, out,
                   obsCount, scene>>

RenameStep == Step("raw", "renamed", RenameLandsat(scene.SPACECRAFT_ID, image))

ScaleStep == Step("renamed", "scaled", ScaleLandsat(image))

MaskStep == Step("scaled", "masked", MaskLandsat(image))

VIStep == Step("masked", "processed", GetVIs(image))

TrainStep == Step("processed", "train", TrainBands(scene, year, image))

OverlayStep == Step("train", "overlay", OverlayLAI(scene, image, NONVEG))

FinishStep == Step("overlay", "lai", FinishLAI(scene, image))

NextScene ==
    RenameStep \/ ScaleStep \/ MaskStep \/ VIStep \/ TrainStep \/ OverlayStep \/ FinishStep

SpecScene == InitScene /\ [][NextScene]_vars

(***************************************************************************)
(* Properties                                                              *)
(***************************************************************************)
FourIds == {LANDSAT("5"), LANDSAT("7"), LANDSAT("8"), LANDSAT("9")}

\* the biome of the scene's pixel
BiomeOf(s) == Remap(Landcover(s), fromList, toList)

LaiImgOf(s) == GetLAIImage(s, year, NONVEG)

\* the scene's QA band carries a value at the pixel with bits 0 and 1 clear
PassesQA(s) ==
    LET im == LaiImgOf(s)
    IN  /\ ~im.err
        /\ im.bands["QA"].m
        /\ Bit(im.bands["QA"].v, 0) = 0
        /\ Bit(im.bands["QA"].v, 1) = 0

NumPassing == Cardinality({i \in DOMAIN lstack : PassesQA(lstack[i])})

\* the encoded LAI of the scenes that pass, in stack order
RECURSIVE PassingValues(_)
PassingValues(q) ==
    IF q = <<>> THEN <<>>
    ELSE (IF PassesQA(Head(q)) THEN <<LaiImgOf(Head(q)).bands["LAI"].v>> ELSE <<>>)
         \o PassingValues(Tail(q))

\* y is the k-th smallest of the values
IsKth(vals, k, y) ==
    /\ y \in Range(vals)
    /\ Cardinality({i \in DOMAIN vals : vals[i] < y}) < k
    /\ Cardinality({i \in DOMAIN vals : vals[i] <= y}) >= k

NotErr(x) == ~x.err

\* C1: at every pixel obs_count equals the number of scenes of the month
\* whose QA validity mask (bits 0 and 1) passed, and where that number is 0
\* the composite LAI is no-data.
C1_ObsCountIsNumberOfPassingScenes ==
    (pc = "done" /\ ~out.err) =>
        /\ out.obs_count = Px(NumPassing)
        /\ (NumPassing = 0 => out.LAI = NoData)

C3_EmptyMonthCountIsZero ==
    (pc = "done" /\ lstack = <<>>) =>
        /\ ~out.err
        /\ out.LAI = NoData
        /\ out.obs_count = Px(0)

\* C4 as stated: at every pixel QA bit 2 is set if and only if the biome is 0.
C4_Bit2IffBiomeZero ==
    (stage = "lai" /\ ~image.err) =>
        ((image.bands["QA"].m /\ Bit(image.bands["QA"].v, 2) = 1)
            <=> BiomeOf(scene) = Px(0))

\* C4 amended: at every pixel where the QA band carries a value, bit 2 is set
\* if and only if the biome is 0, whatever bits 0 and 1 are; the QA band is
\* no-data exactly where the per-scene LAI is no-data.
C4_Bit2IffBiomeZeroWhereValued ==
    (stage = "lai" /\ ~image.err) =>
        /\ image.bands["QA"].m <=> image.bands["LAI"].m
        /\ image.bands["QA"].m =>
              /\ image.bands["QA"].v \in 0..7
              /\ (Bit(image.bands["QA"].v, 2) = 1 <=> BiomeOf(scene) = Px(0))

C4_Witness ==
    /\ stage = "lai"
    /\ ~image.err
    /\ image.bands["QA"] = Px(7)
    /\ BiomeOf(scene) = Px(0)

\* C5 as stated: the stored LAI is round(clamp(v, 0, 8) * 100), within [0, 800].
C5_StoredIsRoundOfClampTo8 ==
    (stage = "lai" /\ ~image.err /\ image.bands["LAI"].m) =>
        /\ image.bands["LAI"].v = RoundDiv(Clamp(scene.rf, 0, lai_max * 1000), 10)
        /\ image.bands["LAI"].v \in 0..800

\* C5 amended: the stored LAI is clamp(round(v * 100), 0, 65535): an integer
\* of [0, 65535] nearest to v * 100 unless saturated at 0 or 65535 (2.34 is
\* stored as 234), and it lies in [0, 800] whenever v is within [0, 8].
C5_StoredIsClampOfRoundTo65535 ==
    (stage = "lai" /\ ~image.err /\ image.bands["LAI"].m) =>
        LET x == image.bands["LAI"].v
            v == scene.rf
        IN  /\ x \in 0..65535
            /\ (x > 0 /\ x < 65535) => (10 * x - 5 <= v /\ v < 10 * x + 5)
            /\ x = 0 => v < 5
            /\ x = 65535 => v >= 655345
            /\ v = 2340 => x = 234
            /\ (v >= 0 /\ v <= lai_max * 1000) => x \in 0..800

C5_Witness ==
    /\ stage = "lai"
    /\ ~image.err
    /\ scene.rf = 9100
    /\ image.bands["LAI"] = Px(910)

\* C6: a pixel whose biome is not iterated (no biome, or biome 0 with
\* non-vegetated retrieval disabled) keeps the sentinel through the overlay,
\* has no per-scene LAI and QA, and contributes nothing to a composite.
C6_UnlistedBiomeNeverRetrieved ==
    LET b == BiomeOf(scene)
        unlisted == ~b.m \/ ~(b.v \in 1..8 \/ (NONVEG /\ b.v = 0))
    IN  (~image.err /\ unlisted) =>
           /\ stage = "overlay" => image.bands["lai_img"] \in {NoData, Px(Sentinel)}
           /\ stage = "lai" =>
                 /\ image.bands["LAI"] = NoData
                 /\ image.bands["QA"] = NoData
                 /\ MaskedLAI(image).bands["LAI"] = NoData

C6_Witness ==
    /\ stage = "lai"
    /\ ~image.err
    /\ ~NONVEG
    /\ BiomeOf(scene) = Px(0)
    /\ scene.QA_PIXEL = 21824
    /\ scene.dn = DnOK
    /\ image.bands["LAI"] = NoData

\* C7: a scene whose fetch or processing fails is dropped: the output is the
\* composite of the remaining scenes and no error leaves buildMonthlyLAI.
C7_FailedSceneIsDropped ==
    pc = "done" => out = Composite(SelectSeq(laiColl, NotErr), REDUCER)

\* C8 as stated: after renameLandsat and scaleLandsat a scene of Landsat 5,
\* 7, 8 or 9 has exactly the 7 canonical bands.
C8_SevenBandsAfterNormalizer ==
    (stage = "scaled" /\ scene.SPACECRAFT_ID \in FourIds /\ scene.fetch = "ok") =>
        /\ ~image.err
        /\ DOMAIN image.bands =
              {"blue", "green", "red", "nir", "swir1", "swir2", "pixel_qa"}

\* C8 amended: for a scene of Landsat 5, 7, 8 or 9, renameLandsat yields
\* exactly the 7 bands blue, green, red, nir, swir1, swir2, pixel_qa, and
\* scaleLandsat then keeps exactly the 5 bands green, red, nir, swir1,
\* pixel_qa.
C8_SevenBandsRenamedFiveScaled ==
    (scene.SPACECRAFT_ID \in FourIds /\ scene.fetch = "ok") =>
        /\ stage = "renamed" =>
              /\ ~image.err
              /\ DOMAIN image.bands =
                    {"blue", "green", "red", "nir", "swir1", "swir2", "pixel_qa"}
        /\ stage = "scaled" =>
              /\ ~image.err
              /\ DOMAIN image.bands = {"green", "red", "nir", "swir1", "pixel_qa"}

C8_Witness ==
    /\ stage = "scaled"
    /\ scene.SPACECRAFT_ID = LANDSAT("5")
    /\ ~image.err
    /\ Cardinality(DOMAIN image.bands) = 5

\* C9: a scene whose sensor identifier is none of the four recognised ones
\* makes the normalizer fail.
C9_UnknownSensorFails ==
    (stage = "renamed" /\ ~(scene.SPACECRAFT_ID \in FourIds)) => image.err

\* C10 as stated: the composite LAI is the reducer (mean, or median with the
\* mean of the two middle values) of the encoded LAI of the valid scenes.
C10_CompositeIsReducerOfValid ==
    (pc = "done" /\ ~out.err /\ NumPassing > 0) =>
        LET vals == PassingValues(lstack)
            n == Len(vals)
            x == out.LAI.v
        IN  /\ out.LAI.m
            /\ out.obs_count = Px(n)
            /\ REDUCER = "mean" => n * x = SumSeq(vals)
            /\ REDUCER = "median" =>
                  \E lo, hi \in Range(vals) :
                     /\ IsKth(vals, (n + 1) \div 2, lo)
                     /\ IsKth(vals, n \div 2 + 1, hi)
                     /\ 2 * x = lo + hi

\* C10 amended: the composite LAI is the reducer of the encoded LAI of exactly
\* the valid scenes, converted to an unsigned 16-bit integer (the fraction is
\* dropped): 200 and 400 give 300 with count 2.
C10_CompositeIsFloorOfReducerOfValid ==
    (pc = "done" /\ ~out.err /\ NumPassing > 0) =>
        LET vals == PassingValues(lstack)
            n == Len(vals)
            x == out.LAI.v
        IN  /\ out.LAI.m
            /\ out.obs_count = Px(n)
            /\ REDUCER = "mean" => (n * x <= SumSeq(vals) /\ SumSeq(vals) < n * x + n)
            /\ REDUCER = "median" =>
                  \E lo, hi \in Range(vals) :
                     /\ IsKth(vals, (n + 1) \div 2, lo)
                     /\ IsKth(vals, n \div 2 + 1, hi)
                     /\ (2 * x <= lo + hi /\ lo + hi < 2 * x + 2)

C10_Witness ==
    /\ pc = "done"
    /\ ~out.err
    /\ REDUCER = "median"
    /\ PassingValues(lstack) = <<200, 400>>
    /\ Len(lstack) = 3
    /\ out.LAI = Px(300)
    /\ out.obs_count = Px(2)

Abs(x) == IF x < 0 THEN -x ELSE x

\* the largest LAI the unsigned 16-bit band can hold, in milli-LAI
MaxStored == 65535 * LAI_scale_factor

\* C11 as stated: the stored LAI decoded with the scale factor 0.01 is within
\* 0.005 of clamp(v, 0, 8).
C11_RoundTripWithinHalfStepOfClampTo8 ==
    (stage = "lai" /\ ~image.err /\ image.bands["LAI"].m) =>
        Abs(DecodeLAI(image.bands["LAI"].v) - Clamp(scene.rf, 0, lai_max * 1000)) <= 5

\* C11 amended: the stored LAI decoded with the scale factor 0.01 is within
\* 0.005 of clamp(v, 0, 655.35); for v in [0, 8] that is within 0.005 of v.
C11_RoundTripWithinHalfStepOfClampTo65535 ==
    (stage = "lai" /\ ~image.err /\ image.bands["LAI"].m) =>
        LET back == DecodeLAI(image.bands["LAI"].v)
            v == scene.rf
        IN  /\ Abs(back - Clamp(v, 0, MaxStored)) <= 5
            /\ (v >= 0 /\ v <= lai_max * 1000) => Abs(back - v) <= 5

\* a half-step case (2.345 stored as 235, read back as 2.35)
C11_Witness ==
    /\ stage = "lai"
    /\ ~image.err
    /\ scene.rf = 2345
    /\ image.bands["LAI"] = Px(235)
    /\ DecodeLAI(235) = 2350

\* the writes of the overlay at the pixel of the current scene
WritesOf(s, img) ==
    ForEachBiomeWrites(s, img, SensorOf(s.SPACECRAFT_ID), BiomeList(NONVEG), 1)

\* the model of a sensor group trained for biome b (for b = 0: on every
\* sample of the sensor group)
ModelKeyedBy(sensor, b) == [sensor |-> sensor, biome2 |-> IF b > 0 THEN b ELSE -1]

\* the pixel went through the overlay and was retrieved
Retrieved(img) == img.bands["lai_img"].m /\ img.bands["lai_img"].v # Sentinel

\* C12: after the overlay every retrieved pixel whose biome b is in the list
\* was written exactly once, by the iteration of b, with the model keyed by
\* (sensor group, b); Landsat 8 and 9 share one sensor group.
C12_WrittenOnceByModelOfSensorAndBiome ==
    /\ SensorOf(LANDSAT("8")) = SensorOf(LANDSAT("9"))
    /\ (stage = "overlay" /\ ~image.err /\ Retrieved(image)) =>
          LET b == image.bands["biome2"].v
              writes == WritesOf(scene, image)
          IN  /\ Len(writes) = 1
              /\ writes[1].b = b
              /\ image.bands["lai_img"] = Px(scene.rf)
              /\ writes[1].rf_model = ModelKeyedBy(SensorOf(scene.SPACECRAFT_ID), b)

\* the part of C12 the script keeps: one write, by the pixel's own biome, of
\* a model of the scene's sensor group
C12_WrittenOnceByOwnBiome ==
    (stage = "overlay" /\ ~image.err /\ Retrieved(image)) =>
        LET writes == WritesOf(scene, image)
        IN  /\ Len(writes) = 1
            /\ writes[1].b = image.bands["biome2"].v
            /\ writes[1].rf_model.sensor = SensorOf(scene.SPACECRAFT_ID)

\* the reflectance of the scene's pixel after scaleLandsat, in thousandths
ScaledOf(s, band) == ScaleDN(s.dn[band])

\* x lies in the valid range [0, max) of its band
InValidRange(x, max) == 0 <= x /\ x < max * 1000

\* x lies in the k-th of the 10 equal-width bins of [0, max)
InBin(x, max, k) == k * max * 100 <= x /\ x < (k + 1) * max * 100

\* the 4-D bin of the scene's pixel is a member of the hull table of a sensor
BinInHull(s, sensor) ==
    \E r, g, n, w \in 0..9 :
        /\ InBin(ScaledOf(s, "red"), red_max, r)
        /\ InBin(ScaledOf(s, "green"), green_max, g)
        /\ InBin(ScaledOf(s, "nir"), nir_max, n)
        /\ InBin(ScaledOf(s, "swir1"), swir1_max, w)
        /\ HullTable(sensor, r, g, n, w) = 1

AllInValidRange(s) ==
    /\ InValidRange(ScaledOf(s, "red"), red_max)
    /\ InValidRange(ScaledOf(s, "green"), green_max)
    /\ InValidRange(ScaledOf(s, "nir"), nir_max)
    /\ InValidRange(ScaledOf(s, "swir1"), swir1_max)

\* C13: in_mask of getLAIQA is 1 at a pixel with reflectance values, and
\* with it bit 0 of the QA band wherever the pixel is retrieved, if and only
\* if a reflectance lies outside its valid range or the 4-D bin is no member
\* of the hull table of the scene's sensor group; a pixel outside the ranges
\* is not looked up and is flagged whatever the table holds.
C13_Bit0IffOutOfRangeOrOutsideHull ==
    LET sensor == SensorOf(scene.SPACECRAFT_ID)
        flagged == ~AllInValidRange(scene) \/ ~BinInHull(scene, sensor)
    IN  /\ (stage = "overlay" /\ ~image.err /\ image.bands["red"].m) =>
              LET in_mask == InMask(LookedUp(image.bands, sensor))
              IN  /\ in_mask.m
                  /\ in_mask.v = 1 <=> flagged
                  /\ ~AllInValidRange(scene) => LookedUp(image.bands, sensor) = NoData
        /\ (stage = "lai" /\ ~image.err /\ image.bands["LAI"].m) =>
              LET qa == image.bands["QA"]
              IN  /\ qa.m
                  /\ Bit(qa.v, 0) = 1 <=> flagged
                  /\ ~AllInValidRange(scene) => Bit(qa.v, 0) = 1

\* a pixel below the red range, whose bin -1 is no index of the table, is
\* flagged
C13_Witness ==
    /\ stage = "lai"
    /\ ~image.err
    /\ scene.dn = DnRedLow
    /\ scene.rf = 2340
    /\ image.bands["QA"] = Px(1)
    /\ BinOf(ScaledOf(scene, "red"), red_max) = -1

\* C14: wherever the pixel is retrieved, bit 1 of the QA band is set if and
\* only if the regression output lies outside the closed interval [0, 8]
\* (0 and 8 leave it clear), and the QA value is
\* bit0 | (bit1 << 1) | (bit2 << 2), a value of 0..7.
C14_Bit1IffOutsideClosedIntervalAndPacked ==
    (stage = "lai" /\ ~image.err /\ image.bands["LAI"].m) =>
        LET qa == image.bands["QA"]
            v == scene.rf
            bit0 == Bool(~AllInValidRange(scene)
                         \/ ~BinInHull(scene, SensorOf(scene.SPACECRAFT_ID)))
            bit1 == Bool(v < 0 \/ v > lai_max * 1000)
            bit2 == Bool(BiomeOf(scene) = Px(0))
        IN  /\ qa.m
            /\ Bit(qa.v, 1) = bit1
            /\ v \in {0, lai_max * 1000} => Bit(qa.v, 1) = 0
            /\ qa.v = bit0 + 2 * bit1 + 4 * bit2
            /\ qa.v \in 0..7

\* an output of exactly 8 leaves bit 1 clear
C14_Witness ==
    /\ stage = "lai"
    /\ ~image.err
    /\ scene.rf = lai_max * 1000
    /\ image.bands["QA"] = Px(0)
    /\ image.bands["LAI"] = Px(800)

\* the epochs of the two NLCD releases merged into nlcd_coll
NlcdEpochs == {2001, 2004, 2006, 2008, 2011, 2013, 2016, 2019, 2021}

\* C15: for every acquisition year of 1984..2024 getTrainImg selects an epoch
\* of the NLCD collection, and no other epoch is strictly closer to the year.
C15_EpochIsNearest ==
    (stage = "train" /\ scene.fetch = "ok" /\ scene.SPACECRAFT_ID \in FourIds
        /\ year \in 1984..2024) =>
        /\ ~image.err
        /\ image.nlcd_year \in NlcdEpochs
        /\ \A e \in NlcdEpochs : Abs(e - year) >= Abs(image.nlcd_year - year)

\* a year between two epochs at the same distance (2005: 2004 and 2006)
C15_Witness ==
    /\ stage = "train"
    /\ ~image.err
    /\ year = 2005
    /\ image.nlcd_year = 2004
    /\ Abs(2006 - year) = Abs(2004 - year)

\* the listed land-cover classes that the remap sends to biome k
ClassesOf(k) == {c \in Range(fromList) : Remap(Px(c), fromList, toList) = Px(k)}

\* C16 as stated: a listed class is sent to a biome of 0..8, and a biome of
\* 1..8 is the image of exactly one class.
C16_RemapOneToOne ==
    (stage = "train" /\ ~image.err /\ scene.landcover \in Range(fromList)) =>
        LET b == image.bands["biome2"]
        IN  /\ b.m
            /\ b.v \in 0..8
            /\ b.v \in 1..8 => ClassesOf(b.v) = {scene.landcover}

\* C16 amended: a listed class is sent to a biome of 0..8 and an unlisted one
\* to no biome; the biomes 1, 2, 3, 4, 6, 7, 8 are each the image of exactly
\* one class (41, 42, 43, 52, 82, 90, 95), biome 5 is the image of the two
\* classes 71 and 81, and every other listed class is sent to 0.
C16_RemapOneToOneButBiome5 ==
    (stage = "train" /\ ~image.err) =>
        LET b == image.bands["biome2"]
            lc == scene.landcover
        IN  /\ lc \in Range(fromList) => (b.m /\ b.v \in 0..8)
            /\ ~(lc \in Range(fromList)) => b = NoData
            /\ b.m => lc \in ClassesOf(b.v)
            /\ (b.m /\ b.v \in (1..8) \ {5}) => ClassesOf(b.v) = {lc}
            /\ (b.m /\ b.v = 5) => ClassesOf(b.v) = {71, 81}
            /\ (b.m /\ b.v = 0) =>
                  ClassesOf(0) = Range(fromList) \ {41, 42, 43, 52, 71, 81, 82, 90, 95}
            /\ \A k \in 1..8 : ClassesOf(k) # {}

\* pasture/hay (81) shares biome 5 with grassland (71)
C16_Witness ==
    /\ stage = "train"
    /\ ~image.err
    /\ scene.landcover = 81
    /\ image.bands["biome2"] = Px(5)
    /\ 71 \in ClassesOf(5)

\* every band of the image is no-data at the pixel
AllNoData(img) == \A b \in DOMAIN img.bands : img.bands[b] = NoData

\* bit 3, 4 or 7 of the sensor QA field is set
CloudShadowWater(q) == Bit(q, 3) = 1 \/ Bit(q, 4) = 1 \/ Bit(q, 7) = 1

\* C17: after maskLandsat (and after maskLandsatQA of the observation count)
\* the pixel is no-data in every band if and only if bit 3, 4 or 7 of its
\* sensor QA field is set; scaleLandsat hands the QA field on unscaled, and a
\* pixel that is kept keeps every band.
C17_MaskedIffBits347 ==
    (~image.err /\ scene.SPACECRAFT_ID \in FourIds) =>
        LET q == scene.QA_PIXEL
        IN  /\ stage = "scaled" => image.bands["pixel_qa"] = Px(q)
            /\ stage = "masked" =>
                  /\ AllNoData(image) <=> CloudShadowWater(q)
                  /\ ~CloudShadowWater(q) =>
                        /\ \A b \in DOMAIN image.bands : image.bands[b].m
                        /\ image.bands["pixel_qa"] = Px(q)
                        /\ image.bands["red"] = Px(ScaledOf(scene, "red"))
            /\ stage = "raw" =>
                  LET valid == MaskLandsatQA(image)
                  IN  /\ AllNoData(valid) <=> CloudShadowWater(q)
                      /\ ~CloudShadowWater(q) => valid = image

\* a pixel with bit 1 (dilated cloud) set and bits 3, 4, 7 clear is kept
C17_Witness ==
    /\ stage = "masked"
    /\ ~image.err
    /\ scene.QA_PIXEL = 21824 + 2
    /\ Bit(scene.QA_PIXEL, 1) = 1
    /\ image.bands["pixel_qa"] = Px(21824 + 2)
    /\ image.bands["nir"].m

\* C18: under both reducers a composite LAI pixel that carries a value lies
\* in [0, 800], between the smallest and the largest encoded LAI of the
\* scenes valid at the pixel.
C18_CompositeWithinValidValues ==
    (pc \in {"done", "counted"} /\ ~out.err /\ out.LAI.m) =>
        LET vals == PassingValues(lstack)
        IN  /\ vals # <<>>
            /\ out.LAI.v \in 0..800
            /\ \A i \in DOMAIN vals : vals[i] \in 0..800
            /\ \E i \in DOMAIN vals : vals[i] <= out.LAI.v
            /\ \E i \in DOMAIN vals : vals[i] >= out.LAI.v

\* a scene encoded above 800 (9.1 stored as 910) is in the stack, and the
\* mean of the valid ones is within [0, 800]
C18_Witness ==
    /\ pc = "done"
    /\ ~out.err
    /\ REDUCER = "mean"
    /\ \E i \in DOMAIN lstack : LaiImgOf(lstack[i]).bands["LAI"] = Px(910)
    /\ Len(PassingValues(lstack)) = 2
    /\ out.LAI.m
    /\ out.LAI.v \in 0..800

\* C19: the per-scene QA band is no-data wherever the per-scene LAI is
\* no-data, so with non-vegetated retrieval disabled no QA pixel that carries
\* a value has bit 2 set.
C19_QANoDataWhereLAINoData ==
    (stage = "lai" /\ ~image.err) =>
        /\ ~image.bands["LAI"].m => image.bands["QA"] = NoData
        /\ (~NONVEG /\ image.bands["QA"].m) => Bit(image.bands["QA"].v, 2) = 0

\* a clear, in-range pixel of biome 0 with non-vegetated retrieval disabled:
\* neither LAI nor QA
C19_Witness ==
    /\ stage = "lai"
    /\ ~image.err
    /\ ~NONVEG
    /\ scene.landcover = 11
    /\ ~CloudShadowWater(scene.QA_PIXEL)
    /\ AllInValidRange(scene)
    /\ image.bands["LAI"] = NoData
    /\ image.bands["QA"] = NoData

\* the number of scenes that getObsCount counts at the pixel
NumObserved ==
    Cardinality({s \in Range(ScenesOfLandsatValid(Archive, month, exportRegion)) :
                    s.fetch = "ok" /\ ~CloudShadowWater(s.QA_PIXEL)})

\* C20: for the same region, year, month and cloud-cover ceiling getObsCount
\* and buildMonthlyLAI select the same scenes, and at the pixel the count of
\* getObsCount is greater than or equal to the obs_count band of the composite.
C20_ObsCountAtLeastCompositeCount ==
    (pc = "counted" /\ ObsCLOUD_LIMIT = CLOUD_LIMIT) =>
        /\ Range(ScenesOfLandsatValid(Archive, month, exportRegion)) = Range(lstack)
        /\ Len(ScenesOfLandsatValid(Archive, month, exportRegion)) = Len(lstack)
        /\ (~out.err /\ ~obsCount.err) =>
              /\ NumObserved >= NumPassing
              /\ obsCount.obs_count.m => obsCount.obs_count.v = NumObserved
              /\ out.obs_count.m =>
                    /\ obsCount.obs_count.m
                    /\ obsCount.obs_count.v >= out.obs_count.v

\* three clear observations of which one passes the LAI QA
C20_Witness ==
    /\ pc = "counted"
    /\ ~out.err
    /\ ~obsCount.err
    /\ obsCount.obs_count = Px(3)
    /\ out.obs_count = Px(1)

====
